---- MODULE Spec2Model ----
(***************************************************************************)
(* Model of clusters.py: the per-frame extraction loop of main() and the   *)
(* plotting calls that consume the five time series.                       *)
(*                                                                         *)
(* Floating point values are modelled as exact rationals <<n, d>> in       *)
(* lowest terms with d > 0; NaN is <<0, 0>>.  The entries of               *)
(* std_cluster_sizes are kept squared (the value stored is the radicand    *)
(* of numpy's final sqrt), because a square root need not be rational.     *)
(* Arrays are functions over 0 .. num_frames - 1, as in the source.        *)
(***************************************************************************)
EXTENDS Integers, Sequences, FiniteSets, TLC

VARIABLES num_frames, pipeline, files, frame, data,
          times, doses, mean_cluster_sizes, std_cluster_sizes, num_clusters,
          warned, calls, pc, exc

vars == <<num_frames, pipeline, files, frame, data,
          times, doses, mean_cluster_sizes, std_cluster_sizes, num_clusters,
          warned, calls, pc, exc>>

arrays == <<times, doses, mean_cluster_sizes, std_cluster_sizes, num_clusters>>

(***************************************************************************)
(* Program constants.                                                      *)
(***************************************************************************)
MIN_PRECIPITATE_SIZE == 10
NUM_ERROR_BARS == 10

(***************************************************************************)
(* Bounds of the model.                                                    *)
(***************************************************************************)
\* frames of a run in which one frame has an arbitrary table and file
MaxFrames == 3
\* frames of a run in which every frame is plain (fails, or one fixed table)
MaxPlainFrames == 10
\* rows of a cluster table
MaxClusters == 3
\* largest cluster size
MaxSize == 11
\* lines of a source file
MaxLines == 2

(***************************************************************************)
(* Floats as rationals.                                                    *)
(***************************************************************************)
NaN == <<0, 0>>
Zero == <<0, 1>>

IsNaN(x) == x[2] = 0

Abs(n) == IF n < 0 THEN -n ELSE n

RECURSIVE Gcd(_, _)
Gcd(a, b) == IF b = 0 THEN a ELSE Gcd(b, a % b)

\* n / d as a float: 0 / 0 is NaN
Norm(n, d) ==
    IF d = 0 THEN NaN
    ELSE LET g == Gcd(Abs(n), d) IN <<n \div g, d \div g>>

Rat(k) == <<k, 1>>

Add(x, y) == IF IsNaN(x) \/ IsNaN(y) THEN NaN
             ELSE Norm(x[1] * y[2] + y[1] * x[2], x[2] * y[2])

Sub(x, y) == IF IsNaN(x) \/ IsNaN(y) THEN NaN
             ELSE Norm(x[1] * y[2] - y[1] * x[2], x[2] * y[2])

Mul(x, y) == IF IsNaN(x) \/ IsNaN(y) THEN NaN
             ELSE Norm(x[1] * y[1], x[2] * y[2])

\* x / k for a count k (numpy divides the sum by the number of elements)
DivCount(x, k) == IF IsNaN(x) THEN NaN ELSE Norm(x[1], x[2] * k)

RECURSIVE SumSeq(_)
SumSeq(s) == IF s = <<>> THEN Zero ELSE Add(Head(s), SumSeq(Tail(s)))

(***************************************************************************)
(* float(text): the text is a run of digits with at most one ".".          *)
(***************************************************************************)
DigitVal(c) ==
    CASE c = "0" -> 0 [] c = "1" -> 1 [] c = "2" -> 2 [] c = "3" -> 3
      [] c = "4" -> 4 [] c = "5" -> 5 [] c = "6" -> 6 [] c = "7" -> 7
      [] c = "8" -> 8 [] c = "9" -> 9

RECURSIVE Pow10(_)
Pow10(k) == IF k = 0 THEN 1 ELSE 10 * Pow10(k - 1)

RECURSIVE DigitsValue(_)
DigitsValue(s) ==
    IF s = <<>> THEN 0
    ELSE 10 * DigitsValue(SubSeq(s, 1, Len(s) - 1)) + DigitVal(s[Len(s)])

Float(text) ==
    LET dots == {k \in 1..Len(text) : text[k] = "."}
        dot  == IF dots = {} THEN Len(text) + 1 ELSE CHOOSE k \in dots : TRUE
        int  == SubSeq(text, 1, dot - 1)
        frac == SubSeq(text, dot + 1, Len(text))
    IN  Norm(DigitsValue(int) * Pow10(Len(frac)) + DigitsValue(frac),
             Pow10(Len(frac)))

(***************************************************************************)
(* The per-frame computations of the loop body.                            *)
(***************************************************************************)
\* sizes[sizes >= MIN_PRECIPITATE_SIZE]
Kept(sizes) == SelectSeq(sizes, LAMBDA s : s >= MIN_PRECIPITATE_SIZE)

RatSeq(sizes) == [k \in 1..Len(sizes) |-> Rat(sizes[k])]

MeanZeroOnEmpty(sizes) ==
    IF sizes = <<>> THEN Zero ELSE DivCount(SumSeq(RatSeq(sizes)), Len(sizes))

\* np.mean(sizes): the sum over the count; NaN for an empty array
Mean(sizes) == DivCount(SumSeq(RatSeq(sizes)), Len(sizes))

SampleStd(sizes) ==
    LET m   == Mean(sizes)
        dev == [k \in 1..Len(sizes) |-> Mul(Sub(Rat(sizes[k]), m), Sub(Rat(sizes[k]), m))]
    IN  IF Len(sizes) = 0 THEN NaN ELSE DivCount(SumSeq(dev), Len(sizes) - 1)

\* np.std(sizes), squared: mean(abs(x - x.mean()) ** 2), ddof = 0
Std(sizes) ==
    LET m   == Mean(sizes)
        dev == [k \in 1..Len(sizes) |-> Mul(Sub(Rat(sizes[k]), m), Sub(Rat(sizes[k]), m))]
    IN  DivCount(SumSeq(dev), Len(sizes))

CountNaNOnEmpty(sizes) == IF sizes = <<>> THEN NaN ELSE Rat(Len(sizes))

\* len(sizes), stored into a float array
Count(sizes) == Rat(Len(sizes))

LastMatch(lines) ==
    LET m == {k \in 1..Len(lines) : lines[k].match}
    IN  IF m = {} THEN 0 ELSE CHOOSE k \in m : \A j \in m : j <= k

\* the line at which the scan of the source file breaks; 0 when no line matches
FirstMatch(lines) ==
    LET m == {k \in 1..Len(lines) : lines[k].match}
    IN  IF m = {} THEN 0 ELSE CHOOSE k \in m : \A j \in m : k <= j

ScanHeaderNaN(lines, t0, dose0) ==
    LET k == FirstMatch(lines)
    IN  IF k = 0 THEN <<NaN, NaN>>
        ELSE <<Float(lines[k].groups[1]), Float(lines[k].groups[2])>>

\* the values of times[frame] and doses[frame] after the scan of the file
ScanHeader(lines, t0, dose0) ==
    LET k == FirstMatch(lines)
    IN  IF k = 0 THEN <<t0, dose0>>
        ELSE <<Float(lines[k].groups[1]), Float(lines[k].groups[2])>>

SetItemAndNext(arr, i, v) ==
    [j \in DOMAIN arr |-> IF j = i \/ j = i + 1 THEN v ELSE arr[j]]

\* arr[i] = v
SetItem(arr, i, v) == [arr EXCEPT ![i] = v]

\* np.zeros(n)
Zeros(n) == [i \in 0..(n - 1) |-> Zero]

(***************************************************************************)
(* After the loop.                                                         *)
(***************************************************************************)
SECONDS_TO_DAYS == <<1157, 100000000>>

RECURSIVE DropNaNFrom(_, _, _)
DropNaNFrom(arr, i, n) ==
    IF i >= n THEN <<>>
    ELSE (IF IsNaN(arr[i]) THEN <<>> ELSE <<arr[i]>>) \o DropNaNFrom(arr, i + 1, n)

\* arr[~np.isnan(arr)]
DropNaN(arr) == DropNaNFrom(arr, 0, num_frames)

\* num_frames // NUM_ERROR_BARS
ErrorEvery(n) == n \div NUM_ERROR_BARS

(***************************************************************************)
(* Inputs: what the pipeline yields per frame and what the files hold.     *)
(***************************************************************************)
SizeValues == (MIN_PRECIPITATE_SIZE - 1)..MaxSize

\* cluster tables, sorted by size (sort_by_size=True), largest first
ClusterTables ==
    UNION {{c \in [1..k -> SizeValues] : \A a \in 1..(k - 1) : c[a] >= c[a + 1]}
           : k \in 0..MaxClusters}

\* the texts the two groups of the header pattern capture
HeaderGroups ==
    {<<<<"1", "0", "0">>, <<".", "0", "1">>>>, <<<<"2", ".", "5">>, <<"0">>>>}

NoMatchLine == [match |-> FALSE, groups |-> <<>>]

\* a line, by what HEADER_PATTERN.search finds in it
Lines == {NoMatchLine} \cup {[match |-> TRUE, groups |-> g] : g \in HeaderGroups}

Files == UNION {[1..k -> Lines] : k \in 0..MaxLines}

PlainFile == <<[match |-> TRUE, groups |-> <<<<"7">>, <<"0", ".", "5">>>>]>>

PlainFrames ==
    {[raises |-> TRUE, clusters |-> <<>>, lines |-> PlainFile],
     [raises |-> FALSE, clusters |-> <<MIN_PRECIPITATE_SIZE + 1>>, lines |-> PlainFile]}

AnyFrames ==
    {[raises |-> FALSE, clusters |-> c, lines |-> l] : c \in ClusterTables, l \in Files}

\* runs of n frames: all plain, or (up to MaxFrames) one arbitrary frame among plain ones
Workloads(n) ==
    [0..(n - 1) -> PlainFrames]
    \cup (IF n > MaxFrames THEN {}
          ELSE {[i \in 0..(n - 1) |-> IF i = k THEN r ELSE p[i]] :
                    k \in 0..(n - 1), r \in AnyFrames, p \in [0..(n - 1) -> PlainFrames]})

Unbound == [bound |-> FALSE, clusters |-> <<>>, SourceFile |-> 0]

Init ==
    /\ \E n \in 1..MaxPlainFrames :
         \E w \in Workloads(n) :
            /\ num_frames = n
            /\ pipeline = [i \in 0..(n - 1) |->
                              [raises |-> w[i].raises, clusters |-> w[i].clusters,
                               SourceFile |-> i]]
            /\ files = [i \in 0..(n - 1) |-> w[i].lines]
    /\ frame = 0
    /\ data = Unbound
    /\ times = Zeros(num_frames)
    /\ doses = Zeros(num_frames)
    /\ mean_cluster_sizes = Zeros(num_frames)
    /\ std_cluster_sizes = Zeros(num_frames)
    /\ num_clusters = Zeros(num_frames)
    /\ warned = <<>>
    /\ calls = <<>>
    /\ pc = "loop"
    /\ exc = "none"

(***************************************************************************)
(* The loop body.                                                          *)
(***************************************************************************)
\* pipeline.compute(frame) returns: statistics and header are recorded
ComputeFrame ==
    /\ pc = "loop"
    /\ frame < num_frames
    /\ ~pipeline[frame].raises
    /\ LET sizes == Kept(pipeline[frame].clusters)
           td    == ScanHeader(files[pipeline[frame].SourceFile],
                               times[frame], doses[frame])
       IN  /\ data' = [bound |-> TRUE, clusters |-> pipeline[frame].clusters,
                       SourceFile |-> pipeline[frame].SourceFile]
           /\ mean_cluster_sizes' = SetItem(mean_cluster_sizes, frame, Mean(sizes))
           /\ std_cluster_sizes' = SetItem(std_cluster_sizes, frame, Std(sizes))
           /\ num_clusters' = SetItem(num_clusters, frame, Count(sizes))
           /\ times' = SetItem(times, frame, td[1])
           /\ doses' = SetItem(doses, frame, td[2])
    /\ frame' = frame + 1
    /\ UNCHANGED <<num_frames, pipeline, files, warned, calls, pc, exc>>

\* pipeline.compute(frame) raises RuntimeError and data is bound by an earlier frame
ComputeRaises ==
    /\ pc = "loop"
    /\ frame < num_frames
    /\ pipeline[frame].raises
    /\ data.bound
    /\ warned' = Append(warned, [frame |-> frame, SourceFile |-> data.SourceFile])
    /\ mean_cluster_sizes' = SetItem(mean_cluster_sizes, frame, NaN)
    /\ std_cluster_sizes' = SetItem(std_cluster_sizes, frame, NaN)
    /\ num_clusters' = SetItem(num_clusters, frame, NaN)
    /\ times' = SetItem(times, frame, NaN)
    /\ doses' = SetItem(doses, frame, NaN)
    /\ frame' = frame + 1
    /\ UNCHANGED <<num_frames, pipeline, files, data, calls, pc, exc>>

\* pipeline.compute(frame) raises RuntimeError while data is still unbound:
\* building the warning text raises UnboundLocalError inside the handler
HandlerRaises ==
    /\ pc = "loop"
    /\ frame < num_frames
    /\ pipeline[frame].raises
    /\ ~data.bound
    /\ pc' = "aborted"
    /\ exc' = "UnboundLocalError"
    /\ UNCHANGED <<num_frames, pipeline, files, frame, data, arrays, warned, calls>>

(***************************************************************************)
(* After the loop.                                                         *)
(***************************************************************************)
\* times *= 1.157e-5
ConvertTimes ==
    /\ pc = "loop"
    /\ frame = num_frames
    /\ times' = [i \in DOMAIN times |-> Mul(times[i], SECONDS_TO_DAYS)]
    /\ pc' = "errorbar"
    /\ UNCHANGED <<num_frames, pipeline, files, frame, data, doses,
                   mean_cluster_sizes, std_cluster_sizes, num_clusters,
                   warned, calls, exc>>

\* axs[0].errorbar(...)
Errorbar ==
    /\ pc = "errorbar"
    /\ LET c == [fn |-> "errorbar",
                 x |-> DropNaN(times),
                 y |-> DropNaN(mean_cluster_sizes),
                 yerr |-> DropNaN(std_cluster_sizes),
                 errorevery |-> ErrorEvery(num_frames)]
           ok == /\ Len(c.x) = Len(c.y)
                 /\ Len(c.x) = Len(c.yerr)
                 /\ c.errorevery >= 1
       IN  /\ calls' = Append(calls, c)
           /\ pc' = IF ok THEN "plot" ELSE "aborted"
           /\ exc' = IF ok THEN exc ELSE "ValueError"
    /\ UNCHANGED <<num_frames, pipeline, files, frame, data, arrays, warned>>

\* axs[1].plot(...)
LinePlot ==
    /\ pc = "plot"
    /\ LET c == [fn |-> "plot",
                 x |-> DropNaN(times),
                 y |-> DropNaN(num_clusters)]
           ok == Len(c.x) = Len(c.y)
       IN  /\ calls' = Append(calls, c)
           /\ pc' = IF ok THEN "linregress" ELSE "aborted"
           /\ exc' = IF ok THEN exc ELSE "ValueError"
    /\ UNCHANGED <<num_frames, pipeline, files, frame, data, arrays, warned>>

\* linregress(...), then the secondary axis and savefig
Linregress ==
    /\ pc = "linregress"
    /\ LET c == [fn |-> "linregress",
                 x |-> DropNaN(times),
                 y |-> DropNaN(doses)]
           ok == Len(c.x) = Len(c.y)
       IN  /\ calls' = Append(calls, c)
           /\ pc' = IF ok THEN "done" ELSE "aborted"
           /\ exc' = IF ok THEN exc ELSE "ValueError"
    /\ UNCHANGED <<num_frames, pipeline, files, frame, data, arrays, warned>>

Next ==
    \/ ComputeFrame
    \/ ComputeRaises
    \/ HandlerRaises
    \/ ConvertTimes
    \/ Errorbar
    \/ LinePlot
    \/ Linregress

Spec == Init /\ [][Next]_vars

(***************************************************************************)
(* Vocabulary of the properties.                                           *)
(***************************************************************************)
Frames == 0..(num_frames - 1)

\* compute(i) has been called: its iteration ended, or an exception left it
Attempted(i) == i < frame \/ (i = frame /\ pc = "aborted")

\* the iteration of frame i ended and the loop went on
Completed(i) == i < frame

Succeeded(i) == ~pipeline[i].raises

FileOf(i) == files[pipeline[i].SourceFile]

HasHeader(i) == \E k \in 1..Len(FileOf(i)) : FileOf(i)[k].match

\* rows of frame i's cluster table that count as precipitates
KeptRows(i) ==
    {k \in 1..Len(pipeline[i].clusters) : pipeline[i].clusters[k] >= MIN_PRECIPITATE_SIZE}

RECURSIVE SumOver(_, _, _)
\* sum of c[k] ^ e over the rows k in S
SumOver(S, c, e) ==
    IF S = {} THEN 0
    ELSE LET k == CHOOSE x \in S : TRUE
         IN  (IF e = 1 THEN c[k] ELSE c[k] * c[k]) + SumOver(S \ {k}, c, e)

AllNaN(i) ==
    /\ IsNaN(times[i])
    /\ IsNaN(doses[i])
    /\ IsNaN(mean_cluster_sizes[i])
    /\ IsNaN(std_cluster_sizes[i])
    /\ IsNaN(num_clusters[i])

\* C1: every frame whose compute raised the documented error, frame 0
\* included, has all five outputs NaN, and the loop went on past it with no
\* exception.
C1_FailureRecovered ==
    \A i \in Frames :
        (Attempted(i) /\ ~Succeeded(i)) => (Completed(i) /\ AllNaN(i))

\* C2: before the conversion to days, every successful frame whose file has
\* a matching line holds in times and doses the two values captured on the
\* first matching line, whatever later lines match.
C2_FirstHeaderWins ==
    pc = "loop" =>
        \A i \in Frames :
            (Completed(i) /\ Succeeded(i) /\ HasHeader(i)) =>
                \E k \in 1..Len(FileOf(i)) :
                    /\ FileOf(i)[k].match
                    /\ \A j \in 1..(k - 1) : ~FileOf(i)[j].match
                    /\ times[i] = Float(FileOf(i)[k].groups[1])
                    /\ doses[i] = Float(FileOf(i)[k].groups[2])

C2_Witness ==
    /\ pc = "loop"
    /\ \E i \in Frames :
          /\ Completed(i) /\ Succeeded(i)
          /\ \E j, k \in 1..Len(FileOf(i)) :
                /\ j < k
                /\ FileOf(i)[j].match /\ FileOf(i)[k].match
                /\ FileOf(i)[j].groups # FileOf(i)[k].groups
                /\ times[i] = <<100, 1>>
                /\ doses[i] = <<1, 100>>

\* C3: for every successful frame the count is the number of table rows of
\* size >= 10, the mean is their sum over their count, and the standard
\* deviation is the population one: N^2 * std^2 = N * sum(x^2) - sum(x)^2.
C3_StatsOverKept ==
    \A i \in Frames :
        (Completed(i) /\ Succeeded(i)) =>
            LET c  == pipeline[i].clusters
                N  == Cardinality(KeptRows(i))
                S1 == SumOver(KeptRows(i), c, 1)
                S2 == SumOver(KeptRows(i), c, 2)
                m  == mean_cluster_sizes[i]
                v  == std_cluster_sizes[i]
            IN  /\ num_clusters[i] = <<N, 1>>
                /\ N > 0 =>
                     /\ m[2] > 0 /\ m[1] * N = S1 * m[2]
                     /\ v[2] > 0 /\ v[1] * N * N = (N * S2 - S1 * S1) * v[2]

C3_Witness ==
    \E i \in Frames :
        /\ Completed(i) /\ Succeeded(i)
        /\ pipeline[i].clusters = <<11, 10, 9>> \/ pipeline[i].clusters = <<11, 10>>
        /\ num_clusters[i] = <<2, 1>>
        /\ mean_cluster_sizes[i] = <<21, 2>>
        /\ std_cluster_sizes[i] = <<1, 4>>

\* C4: in every plotting or fitting call, the NaN-filtered series passed
\* together have the same length.
C4_EqualLengths ==
    \A n \in 1..Len(calls) :
        /\ Len(calls[n].x) = Len(calls[n].y)
        /\ calls[n].fn = "errorbar" => Len(calls[n].x) = Len(calls[n].yerr)

\* C5: once the loop has completed, times, doses and num_clusters are NaN
\* exactly at the frames whose compute raised, so each of them without its
\* NaN entries lists the successful frames in order.
C5_NaNIffRaised ==
    frame = num_frames =>
        LET ok      == {i \in Frames : Succeeded(i)}
            rank(i) == Cardinality({j \in ok : j <= i})
        IN  \A arr \in {times, doses, num_clusters} :
                /\ \A i \in Frames : IsNaN(arr[i]) <=> ~Succeeded(i)
                /\ Len(DropNaN(arr)) = Cardinality(ok)
                /\ \A i \in ok : DropNaN(arr)[rank(i)] = arr[i]

C5_Witness ==
    /\ frame = num_frames
    /\ num_frames = 3
    /\ Succeeded(0) /\ ~Succeeded(1) /\ Succeeded(2)
    /\ num_clusters = (0 :> <<2, 1>>) @@ (1 :> NaN) @@ (2 :> <<1, 1>>)
    /\ Len(DropNaN(num_clusters)) = 2

\* C6: every warning names the failing frame and that frame's own source
\* file, and every recovered failure is warned about.
C6_WarningNamesOwnFile ==
    /\ \A n \in 1..Len(warned) :
          /\ ~Succeeded(warned[n].frame)
          /\ warned[n].SourceFile = pipeline[warned[n].frame].SourceFile
    /\ \A i \in Frames :
          (Completed(i) /\ ~Succeeded(i)) =>
              \E n \in 1..Len(warned) : warned[n].frame = i

C8_EmptyKeptIsNotFailure ==
    \A i \in Frames :
        (Attempted(i) /\ Succeeded(i) /\ KeptRows(i) = {}) =>
            /\ Completed(i)
            /\ IsNaN(mean_cluster_sizes[i])
            /\ IsNaN(std_cluster_sizes[i])
            /\ num_clusters[i] = Zero
            /\ \A n \in 1..Len(warned) : warned[n].frame # i
            /\ (pc = "loop" /\ HasHeader(i)) =>
                  \E k \in 1..Len(FileOf(i)) :
                      /\ FileOf(i)[k].match
                      /\ times[i] = Float(FileOf(i)[k].groups[1])
                      /\ doses[i] = Float(FileOf(i)[k].groups[2])

C8_Witness ==
    \E i \in Frames :
        /\ i + 1 < frame
        /\ pc = "loop"
        /\ Succeeded(i)
        /\ pipeline[i].clusters = <<9, 9>>
        /\ HasHeader(i)
        /\ times[i] = <<5, 2>>
        /\ num_clusters[i] = Zero
        /\ IsNaN(mean_cluster_sizes[i])

\* C9: the stride passed to the error-bar call is a positive integer, and
\* error bars are drawn at at least 1 and fewer than 2 * NUM_ERROR_BARS of
\* the plotted points.
C9_StridePositiveAndBounded ==
    \A n \in 1..Len(calls) :
        calls[n].fn = "errorbar" =>
            /\ calls[n].errorevery >= 1
            /\ \E bars \in 1..(2 * NUM_ERROR_BARS - 1) :
                  /\ (bars - 1) * calls[n].errorevery < Len(calls[n].x)
                  /\ Len(calls[n].x) <= bars * calls[n].errorevery

\* C10: an iteration of the loop, on either branch, changes the five arrays
\* at index frame only and leaves the length of each at num_frames.
C10_WritesOnlyOwnIndex ==
    [][pc = "loop" /\ frame < num_frames =>
         /\ num_frames' = num_frames
         /\ \A n \in 1..5 :
               /\ DOMAIN arrays'[n] = 0..(num_frames - 1)
               /\ \A j \in 0..(num_frames - 1) :
                     j # frame => arrays'[n][j] = arrays[n][j]]_vars

C10_Witness ==
    /\ pc = "loop"
    /\ frame = 3
    /\ Succeeded(0) /\ ~Succeeded(1) /\ Succeeded(2)
    /\ times[0] = <<7, 1>> /\ IsNaN(times[1]) /\ times[2] = <<100, 1>>
    /\ ~IsNaN(mean_cluster_sizes[0]) /\ IsNaN(mean_cluster_sizes[1])

====
